---------------------------- MODULE Spec2Model ----------------------------
(***************************************************************************)
(* Model of BCG_DesktopApp/main.py: the worker thread                      *)
(* SystemInfoRetrievalThread (the poller) and the window SystemInfoApp     *)
(* (the shell), together with the queued signal connections between them.  *)
(*                                                                         *)
(* The worker's run() is cut at every statement that reads or writes       *)
(* state shared with the UI thread or that blocks; pc is the worker's      *)
(* position.  The UI thread runs one handler at a time; ui is its          *)
(* position, and the two handlers that block (refresh_info in              *)
(* psutil.cpu_percent(interval=1), closeEvent in QThread.wait()) are cut   *)
(* at the blocking call.  Signals emitted by the worker are delivered to   *)
(* the slots of the window through the UI thread's event queue (uiQueue).  *)
(***************************************************************************)
EXTENDS Integers, Sequences, FiniteSets, TLC

(* ------------------------------ bounds -------------------------------- *)
MaxQueue == 3         \* worker emissions waiting in the UI event queue

\* The program never inspects the values below: it only copies them into
\* strings.  Two values of each kind that reaches a label tell one message
\* from another.
Readings == {1, 2}    \* CPU readings the host can return
Speeds == {1, 2}      \* download speeds a speed test can return
Times == {1}          \* wall-clock readings of datetime.now()

SleepMs == 1000                  \* self.msleep(1000)
SampleMs == 1000                 \* psutil.cpu_percent(interval=1)
SpeedTestMs == {500, 3000}       \* durations of a speed test that returns
CollectFailMs == {0, SampleMs}   \* get_system_info raises before, after sampling
SpeedFailMs == {0, 3000}         \* get_speed_test raises at once, on a timeout

VARIABLES
    pc,                     \* worker position in run(), "exited" or "dead"
    speed_test_requested,   \* SystemInfoRetrievalThread.speed_test_requested
    interruptionRequested,  \* QThread interruption flag
    system_info,            \* local of run(): string returned by get_system_info
    speed_info,             \* local of run(): value returned by get_speed_test
    last_speed_test_time,   \* SystemInfoRetrievalThread.last_speed_test_time
    last_speed_test_result, \* SystemInfoRetrievalThread.last_speed_test_result
    uiQueue,                \* queued slot calls and events of the UI thread
    ui,                     \* UI thread: "idle", "refreshing", "closing", "quit"
    closed,                 \* closeEvent has returned (window closed)
    check_thread_timer,     \* check_thread_timer is active
    info_label,             \* text of info_label
    last_speed_test_label,  \* text of last_speed_test_label
    tickCollect,            \* this tick: outcome of get_system_info
    tickObserved,           \* this tick: value read from the request flag
    tickTest,               \* this tick: outcome of get_speed_test
    tickSnapshots,          \* this tick: update_signal emissions
    tickResults,            \* this tick: speed_test_complete_signal emissions
    prevTickRaised,         \* the tick before this one caught an exception
    reqInFlight,            \* this tick: request_speed_test ran during the test
    tickSpent,              \* this tick: milliseconds spent before the sleep
    tickSlept,              \* this tick: milliseconds slept by msleep
    owed,                   \* requests that raised the flag minus results emitted
    stopTransitions,        \* times check_thread took its "not running" branch
    stopRequestedAt,        \* where the worker was when closeEvent requested the stop
    producedSnapshots,      \* snapshots emitted and not yet handled, oldest first
    producedResults,        \* results emitted and not yet handled, oldest first
    bytes,                  \* get_size: its argument, base-1024 digits, lowest first
    size_text,              \* get_size: the string returned ("" before the call)
    size_value,             \* get_size: the number it printed, in hundredths
    size_unit,              \* get_size: the unit it printed
    uptime_seconds,         \* get_uptime: age of the process in whole seconds
    uptime_text             \* get_uptime: the string returned ("" before the call)

worker == <<pc, speed_test_requested, interruptionRequested, system_info,
            speed_info, last_speed_test_time, last_speed_test_result>>
shell == <<ui, closed, check_thread_timer, info_label, last_speed_test_label>>
tick == <<tickCollect, tickObserved, tickTest, tickSnapshots, tickResults,
          prevTickRaised>>
produced == <<producedSnapshots, producedResults>>
format == <<bytes, size_text, size_value, size_unit, uptime_seconds,
            uptime_text>>
system == <<worker, shell, tick, uiQueue, owed, stopTransitions,
            stopRequestedAt, reqInFlight, tickSpent, tickSlept, produced>>
vars == <<system, format>>

(* ------------------------- strings and messages ----------------------- *)
\* f"{x:.2f}" for the whole numbers the model draws readings from
Fmt2(n) == ToString(n) \o ".00"

\* get_system_info: of the formatted block only the CPU line is modelled
get_system_info(cpu_percent) == "CPU Usage: " \o Fmt2(cpu_percent) \o "%"

\* datetime.now().strftime("%Y-%m-%d %H:%M:%S") of clock reading t
strftime(t) == "2024-01-01 12:00:0" \o ToString(t)

StoppedText == "Thread stopped. Check your system."

SpeedTestText(speed, time) ==
    "Last Speed Test (" \o time \o "): " \o Fmt2(speed) \o " Mbps"

UpdateMsg(text) == [sig |-> "update", text |-> text, speed |-> 0]
SpeedMsg(speed, time) == [sig |-> "speed", text |-> time, speed |-> speed]
QuitMsg == [sig |-> "quit", text |-> "", speed |-> 0]

IsRunning == pc \notin {"exited", "dead"}

(* -------------------------------- Init -------------------------------- *)
\* the worker and the window as constructed, the worker just started
Constructed ==
    /\ pc = "top"
    /\ speed_test_requested = FALSE
    /\ interruptionRequested = FALSE
    /\ system_info = ""
    /\ speed_info = 0
    /\ last_speed_test_time = ""
    /\ last_speed_test_result = ""
    /\ uiQueue = <<>>
    /\ ui = "idle"
    /\ closed = FALSE
    /\ check_thread_timer = TRUE
    /\ info_label = ""
    /\ last_speed_test_label = ""
    /\ tickCollect = "none"
    /\ tickObserved = "unread"
    /\ tickTest = "none"
    /\ tickSnapshots = 0
    /\ tickResults = 0
    /\ prevTickRaised = FALSE
    /\ reqInFlight = FALSE
    /\ tickSpent = 0
    /\ tickSlept = 0
    /\ owed = 0
    /\ stopTransitions = 0
    /\ stopRequestedAt = "none"
    /\ producedSnapshots = <<>>
    /\ producedResults = <<>>

\* no call of get_size or get_uptime is followed
Init ==
    /\ Constructed
    /\ bytes = <<0>>
    /\ size_text = ""
    /\ size_value = 0
    /\ size_unit = ""
    /\ uptime_seconds = 0
    /\ uptime_text = ""

(* ------------------------- the worker: run() -------------------------- *)
\* while not self.isInterruptionRequested(): a new tick starts or run returns
RunLoopCheck ==
    /\ pc = "top"
    /\ IF interruptionRequested
       THEN /\ pc' = "exited"
            /\ UNCHANGED tick
       ELSE /\ Len(uiQueue) + 2 <= MaxQueue
            /\ pc' = "collect"
            /\ tickCollect' = "none"
            /\ tickObserved' = "unread"
            /\ tickTest' = "none"
            /\ tickSnapshots' = 0
            /\ tickResults' = 0
            /\ prevTickRaised' = (tickCollect = "err" \/ tickTest = "err")
    /\ UNCHANGED <<speed_test_requested, interruptionRequested, system_info,
                   speed_info, last_speed_test_time, last_speed_test_result,
                   shell, uiQueue, owed, stopTransitions>>
    /\ UNCHANGED stopRequestedAt
    /\ reqInFlight' = (interruptionRequested /\ reqInFlight)
    /\ tickSpent' = IF interruptionRequested THEN tickSpent ELSE 0
    /\ tickSlept' = IF interruptionRequested THEN tickSlept ELSE 0
    /\ UNCHANGED produced
    /\ UNCHANGED format

\* system_info = self.get_system_info(): returns the block or raises
RunGetSystemInfo ==
    /\ pc = "collect"
    /\ \/ \E r \in Readings :
            /\ system_info' = get_system_info(r)
            /\ tickCollect' = "ok"
            /\ tickSpent' = tickSpent + SampleMs
            /\ pc' = "emit"
       \/ /\ system_info' = ""
          /\ tickCollect' = "err"
          /\ \E d \in CollectFailMs : tickSpent' = tickSpent + d
          /\ pc' = "except"
    /\ UNCHANGED <<speed_test_requested, interruptionRequested, speed_info,
                   last_speed_test_time, last_speed_test_result, shell,
                   tickObserved, tickTest, tickSnapshots, tickResults,
                   prevTickRaised, uiQueue, owed, stopTransitions>>
    /\ UNCHANGED stopRequestedAt
    /\ UNCHANGED reqInFlight
    /\ UNCHANGED tickSlept
    /\ UNCHANGED produced
    /\ UNCHANGED format

\* variant: the queued call is put ahead of the calls already waiting
RunEmitUpdate_Prepended ==
    /\ pc = "emit"
    /\ uiQueue' = <<UpdateMsg(system_info)>> \o uiQueue
    /\ tickSnapshots' = tickSnapshots + 1
    /\ system_info' = ""
    /\ pc' = "check"
    /\ UNCHANGED <<speed_test_requested, interruptionRequested, speed_info,
                   last_speed_test_time, last_speed_test_result, shell,
                   tickCollect, tickObserved, tickTest, tickResults,
                   prevTickRaised, owed, stopTransitions>>
    /\ UNCHANGED <<stopRequestedAt, reqInFlight, tickSpent, tickSlept>>
    /\ producedSnapshots' = Append(producedSnapshots, system_info)
    /\ UNCHANGED producedResults
    /\ UNCHANGED format

\* self.update_signal.emit(system_info): queued call of update_info_label
RunEmitUpdate ==
    /\ pc = "emit"
    /\ uiQueue' = Append(uiQueue, UpdateMsg(system_info))
    /\ tickSnapshots' = tickSnapshots + 1
    /\ system_info' = ""
    /\ pc' = "check"
    /\ UNCHANGED <<speed_test_requested, interruptionRequested, speed_info,
                   last_speed_test_time, last_speed_test_result, shell,
                   tickCollect, tickObserved, tickTest, tickResults,
                   prevTickRaised, owed, stopTransitions>>
    /\ UNCHANGED stopRequestedAt
    /\ UNCHANGED reqInFlight
    /\ UNCHANGED tickSpent
    /\ UNCHANGED tickSlept
    /\ producedSnapshots' = Append(producedSnapshots, system_info)
    /\ UNCHANGED producedResults
    /\ UNCHANGED format

\* variant: the speed test is run without looking at the request flag
RunCheckRequested_Unconditional ==
    /\ pc = "check"
    /\ tickObserved' = IF speed_test_requested THEN "set" ELSE "clear"
    /\ pc' = "speedtest"
    /\ UNCHANGED <<speed_test_requested, interruptionRequested, system_info,
                   speed_info, last_speed_test_time, last_speed_test_result,
                   shell, tickCollect, tickTest, tickSnapshots, tickResults,
                   prevTickRaised, uiQueue, owed, stopTransitions>>
    /\ UNCHANGED stopRequestedAt
    /\ UNCHANGED reqInFlight
    /\ UNCHANGED tickSpent
    /\ UNCHANGED tickSlept
    /\ UNCHANGED produced
    /\ UNCHANGED format

\* if self.speed_test_requested:
RunCheckRequested ==
    /\ pc = "check"
    /\ tickObserved' = IF speed_test_requested THEN "set" ELSE "clear"
    /\ pc' = IF speed_test_requested THEN "speedtest" ELSE "sleep"
    /\ UNCHANGED <<speed_test_requested, interruptionRequested, system_info,
                   speed_info, last_speed_test_time, last_speed_test_result,
                   shell, tickCollect, tickTest, tickSnapshots, tickResults,
                   prevTickRaised, uiQueue, owed, stopTransitions>>
    /\ UNCHANGED stopRequestedAt
    /\ UNCHANGED reqInFlight
    /\ UNCHANGED tickSpent
    /\ UNCHANGED tickSlept
    /\ UNCHANGED produced
    /\ UNCHANGED format

\* variant: a stop request aborts the speed test and run() returns at once
RunGetSpeedTest_Preempted ==
    /\ pc = "speedtest"
    /\ IF interruptionRequested
       THEN /\ speed_info' = 0
            /\ tickTest' = "none"
            /\ pc' = "exited"
            /\ UNCHANGED tickSpent
       ELSE \/ \E s \in Speeds, d \in SpeedTestMs :
                 /\ speed_info' = s
                 /\ tickTest' = "ok"
                 /\ tickSpent' = tickSpent + d
                 /\ pc' = "complete"
            \/ /\ speed_info' = 0
               /\ tickTest' = "err"
               /\ \E d \in SpeedFailMs : tickSpent' = tickSpent + d
               /\ pc' = "except"
    /\ UNCHANGED <<speed_test_requested, interruptionRequested, system_info,
                   last_speed_test_time, last_speed_test_result, shell,
                   tickCollect, tickObserved, tickSnapshots, tickResults,
                   prevTickRaised, uiQueue, owed, stopTransitions>>
    /\ UNCHANGED stopRequestedAt
    /\ UNCHANGED reqInFlight
    /\ UNCHANGED tickSlept
    /\ UNCHANGED produced
    /\ UNCHANGED format

\* speed_info = self.get_speed_test(): returns a speed or raises
RunGetSpeedTest ==
    /\ pc = "speedtest"
    /\ \/ \E s \in Speeds, d \in SpeedTestMs :
            /\ speed_info' = s
            /\ tickTest' = "ok"
            /\ tickSpent' = tickSpent + d
            /\ pc' = "complete"
       \/ /\ speed_info' = 0
          /\ tickTest' = "err"
          /\ \E d \in SpeedFailMs : tickSpent' = tickSpent + d
          /\ pc' = "except"
    /\ UNCHANGED <<speed_test_requested, interruptionRequested, system_info,
                   last_speed_test_time, last_speed_test_result, shell,
                   tickCollect, tickObserved, tickSnapshots, tickResults,
                   prevTickRaised, uiQueue, owed, stopTransitions>>
    /\ UNCHANGED stopRequestedAt
    /\ UNCHANGED reqInFlight
    /\ UNCHANGED tickSlept
    /\ UNCHANGED produced
    /\ UNCHANGED format

\* the two assignments and self.speed_test_complete_signal.emit(...)
RunEmitSpeedTest ==
    /\ pc = "complete"
    /\ \E t \in Times :
          /\ last_speed_test_time' = strftime(t)
          /\ uiQueue' = Append(uiQueue, SpeedMsg(speed_info, strftime(t)))
          /\ producedResults' =
                 Append(producedResults, <<speed_info, strftime(t)>>)
    /\ last_speed_test_result' = "Internet Speed: " \o Fmt2(speed_info) \o " Mbps"
    /\ tickResults' = tickResults + 1
    /\ owed' = owed - 1
    /\ speed_info' = 0
    /\ pc' = "clear"
    /\ UNCHANGED <<speed_test_requested, interruptionRequested, system_info,
                   shell, tickCollect, tickObserved, tickTest, tickSnapshots,
                   prevTickRaised, stopTransitions>>
    /\ UNCHANGED stopRequestedAt
    /\ UNCHANGED reqInFlight
    /\ UNCHANGED tickSpent
    /\ UNCHANGED tickSlept
    /\ UNCHANGED producedSnapshots
    /\ UNCHANGED format

\* variant: the request flag is left set after the result is emitted
RunClearRequest_Omitted ==
    /\ pc = "clear"
    /\ pc' = "sleep"
    /\ UNCHANGED <<speed_test_requested, interruptionRequested, system_info,
                   speed_info, last_speed_test_time, last_speed_test_result,
                   shell, tick, uiQueue, owed, stopTransitions>>
    /\ UNCHANGED stopRequestedAt
    /\ UNCHANGED reqInFlight
    /\ UNCHANGED tickSpent
    /\ UNCHANGED tickSlept
    /\ UNCHANGED produced
    /\ UNCHANGED format

\* self.speed_test_requested = False
RunClearRequest ==
    /\ pc = "clear"
    /\ speed_test_requested' = FALSE
    /\ pc' = "sleep"
    /\ UNCHANGED <<interruptionRequested, system_info, speed_info,
                   last_speed_test_time, last_speed_test_result, shell, tick,
                   uiQueue, owed, stopTransitions>>
    /\ UNCHANGED stopRequestedAt
    /\ UNCHANGED reqInFlight
    /\ UNCHANGED tickSpent
    /\ UNCHANGED tickSlept
    /\ UNCHANGED produced
    /\ UNCHANGED format

\* variant: the exception is not handled and run() returns
RunExcept_Propagates ==
    /\ pc = "except"
    /\ pc' = "exited"
    /\ UNCHANGED <<speed_test_requested, interruptionRequested, system_info,
                   speed_info, last_speed_test_time, last_speed_test_result,
                   shell, tick, uiQueue, owed, stopTransitions>>
    /\ UNCHANGED stopRequestedAt
    /\ UNCHANGED reqInFlight
    /\ UNCHANGED tickSpent
    /\ UNCHANGED tickSlept
    /\ UNCHANGED produced
    /\ UNCHANGED format

\* except Exception as e: print(...)
RunExcept ==
    /\ pc = "except"
    /\ pc' = "sleep"
    /\ UNCHANGED <<speed_test_requested, interruptionRequested, system_info,
                   speed_info, last_speed_test_time, last_speed_test_result,
                   shell, tick, uiQueue, owed, stopTransitions>>
    /\ UNCHANGED stopRequestedAt
    /\ UNCHANGED reqInFlight
    /\ UNCHANGED tickSpent
    /\ UNCHANGED tickSlept
    /\ UNCHANGED produced
    /\ UNCHANGED format

\* self.msleep(1000)
RunSleep ==
    /\ pc = "sleep"
    /\ pc' = "top"
    /\ UNCHANGED <<speed_test_requested, interruptionRequested, system_info,
                   speed_info, last_speed_test_time, last_speed_test_result,
                   shell, tick, uiQueue, owed, stopTransitions>>
    /\ UNCHANGED stopRequestedAt
    /\ UNCHANGED reqInFlight
    /\ UNCHANGED tickSpent
    /\ tickSlept' = SleepMs
    /\ UNCHANGED produced
    /\ UNCHANGED format

\* The worker's execution context ends without run() returning through its
\* loop condition: an error that "except Exception" does not catch, or one
\* raised by the handler's own print.
WorkerDies ==
    /\ pc \in {"collect", "speedtest", "except"}
    /\ pc' = "dead"
    /\ system_info' = ""
    /\ speed_info' = 0
    /\ UNCHANGED <<speed_test_requested, interruptionRequested,
                   last_speed_test_time, last_speed_test_result, shell, tick,
                   uiQueue, owed, stopTransitions>>
    /\ UNCHANGED stopRequestedAt
    /\ UNCHANGED reqInFlight
    /\ UNCHANGED tickSpent
    /\ UNCHANGED tickSlept
    /\ UNCHANGED produced
    /\ UNCHANGED format

Worker ==
    \/ RunLoopCheck
    \/ RunGetSystemInfo
    \/ RunEmitUpdate
    \/ RunCheckRequested
    \/ RunGetSpeedTest
    \/ RunEmitSpeedTest
    \/ RunClearRequest
    \/ RunExcept
    \/ RunSleep


(* --------------------- the shell: SystemInfoApp ----------------------- *)
\* "Run Speed Test": SystemInfoApp.request_speed_test calls
\* SystemInfoRetrievalThread.request_speed_test on the UI thread
request_speed_test ==
    /\ ui = "idle"
    /\ ~closed
    /\ speed_test_requested' = TRUE
    /\ owed' = IF speed_test_requested THEN owed ELSE owed + 1
    /\ UNCHANGED <<pc, interruptionRequested, system_info, speed_info,
                   last_speed_test_time, last_speed_test_result, shell, tick,
                   uiQueue, stopTransitions>>
    /\ UNCHANGED stopRequestedAt
    /\ reqInFlight' = (reqInFlight \/ pc = "speedtest")
    /\ UNCHANGED tickSpent
    /\ UNCHANGED tickSlept
    /\ UNCHANGED produced
    /\ UNCHANGED format

\* "Refresh": refresh_info enters self.thread.get_system_info() on the UI
\* thread, which blocks in psutil.cpu_percent(interval=1)
refresh_info_call ==
    /\ ui = "idle"
    /\ ~closed
    /\ ui' = "refreshing"
    /\ UNCHANGED <<worker, closed, check_thread_timer, info_label,
                   last_speed_test_label, tick, uiQueue, owed,
                   stopTransitions>>
    /\ UNCHANGED stopRequestedAt
    /\ UNCHANGED reqInFlight
    /\ UNCHANGED tickSpent
    /\ UNCHANGED tickSlept
    /\ UNCHANGED produced
    /\ UNCHANGED format

\* get_system_info returns the block for CPU reading r and refresh_info
\* ends; the returned string is not used
refresh_info_returns(r) ==
    /\ ui = "refreshing"
    /\ get_system_info(r) \in STRING
    /\ ui' = "idle"
    /\ UNCHANGED <<worker, closed, check_thread_timer, info_label,
                   last_speed_test_label, tick, uiQueue, owed,
                   stopTransitions>>
    /\ UNCHANGED stopRequestedAt
    /\ UNCHANGED reqInFlight
    /\ UNCHANGED tickSpent
    /\ UNCHANGED tickSlept
    /\ UNCHANGED produced
    /\ UNCHANGED format

\* get_system_info raises; the slot ends with the exception reported
refresh_info_raises ==
    /\ ui = "refreshing"
    /\ ui' = "idle"
    /\ UNCHANGED <<worker, closed, check_thread_timer, info_label,
                   last_speed_test_label, tick, uiQueue, owed,
                   stopTransitions>>
    /\ UNCHANGED stopRequestedAt
    /\ UNCHANGED reqInFlight
    /\ UNCHANGED tickSpent
    /\ UNCHANGED tickSlept
    /\ UNCHANGED produced
    /\ UNCHANGED format

refresh_info_return ==
    \/ \E r \in Readings : refresh_info_returns(r)
    \/ refresh_info_raises

\* closeEvent: self.thread.requestInterruption(), then self.thread.wait()
\* blocks the UI thread
closeEvent_call ==
    /\ ui = "idle"
    /\ ~closed
    /\ interruptionRequested' = TRUE
    /\ ui' = "closing"
    /\ UNCHANGED <<pc, speed_test_requested, system_info, speed_info,
                   last_speed_test_time, last_speed_test_result, closed,
                   check_thread_timer, info_label, last_speed_test_label, tick, uiQueue, owed, stopTransitions>>
    /\ stopRequestedAt' = IF pc = "speedtest" THEN "speedtest" ELSE "elsewhere"
    /\ UNCHANGED reqInFlight
    /\ UNCHANGED tickSpent
    /\ UNCHANGED tickSlept
    /\ UNCHANGED produced
    /\ UNCHANGED format

\* wait() returns once the worker has finished; event.accept() closes the
\* last window and the application posts its quit event
closeEvent_return ==
    /\ ui = "closing"
    /\ ~IsRunning
    /\ ui' = "idle"
    /\ closed' = TRUE
    /\ uiQueue' = Append(uiQueue, QuitMsg)
    /\ UNCHANGED <<worker, check_thread_timer, info_label,
                   last_speed_test_label, tick, owed,
                   stopTransitions>>
    /\ UNCHANGED stopRequestedAt
    /\ UNCHANGED reqInFlight
    /\ UNCHANGED tickSpent
    /\ UNCHANGED tickSlept
    /\ UNCHANGED produced
    /\ UNCHANGED format

\* variant: the "not running" branch leaves the timer active
check_thread_TimerKept ==
    /\ ui = "idle"
    /\ check_thread_timer
    /\ IF ~IsRunning
       THEN /\ info_label' = StoppedText
            /\ stopTransitions' = stopTransitions + 1
            /\ UNCHANGED check_thread_timer
       ELSE UNCHANGED <<check_thread_timer, info_label, stopTransitions>>
    /\ UNCHANGED <<worker, ui, closed, last_speed_test_label, tick,
                   uiQueue, owed>>
    /\ UNCHANGED stopRequestedAt
    /\ UNCHANGED reqInFlight
    /\ UNCHANGED tickSpent
    /\ UNCHANGED tickSlept
    /\ UNCHANGED produced
    /\ UNCHANGED format

\* variant: the test of isRunning() is inverted
check_thread_Inverted ==
    /\ ui = "idle"
    /\ check_thread_timer
    /\ IF IsRunning
       THEN /\ check_thread_timer' = FALSE
            /\ info_label' = StoppedText
            /\ stopTransitions' = stopTransitions + 1
       ELSE UNCHANGED <<check_thread_timer, info_label, stopTransitions>>
    /\ UNCHANGED <<worker, ui, closed, last_speed_test_label, tick,
                   uiQueue, owed>>
    /\ UNCHANGED stopRequestedAt
    /\ UNCHANGED reqInFlight
    /\ UNCHANGED tickSpent
    /\ UNCHANGED tickSlept
    /\ UNCHANGED produced
    /\ UNCHANGED format

\* check_thread, run by check_thread_timer every second while it is active
check_thread ==
    /\ ui = "idle"
    /\ check_thread_timer
    /\ IF ~IsRunning
       THEN /\ check_thread_timer' = FALSE
            /\ info_label' = StoppedText
            /\ stopTransitions' = stopTransitions + 1
       ELSE UNCHANGED <<check_thread_timer, info_label, stopTransitions>>
    /\ UNCHANGED <<worker, ui, closed, last_speed_test_label, tick,
                   uiQueue, owed>>
    /\ UNCHANGED stopRequestedAt
    /\ UNCHANGED reqInFlight
    /\ UNCHANGED tickSpent
    /\ UNCHANGED tickSlept
    /\ UNCHANGED produced
    /\ UNCHANGED format

\* variant: the slot rewrites both labels
update_info_label_BothLabels ==
    /\ ui = "idle"
    /\ uiQueue # <<>>
    /\ Head(uiQueue).sig = "update"
    /\ info_label' = Head(uiQueue).text
    /\ last_speed_test_label' = ""
    /\ uiQueue' = Tail(uiQueue)
    /\ UNCHANGED <<worker, ui, closed, check_thread_timer, tick, owed,
                   stopTransitions>>
    /\ UNCHANGED stopRequestedAt
    /\ UNCHANGED reqInFlight
    /\ UNCHANGED tickSpent
    /\ UNCHANGED tickSlept
    /\ producedSnapshots' = IF producedSnapshots = <<>> THEN <<>>
                                ELSE Tail(producedSnapshots)
    /\ UNCHANGED producedResults
    /\ UNCHANGED format

\* update_info_label, called for the update_signal at the head of the queue
update_info_label ==
    /\ ui = "idle"
    /\ uiQueue # <<>>
    /\ Head(uiQueue).sig = "update"
    /\ info_label' = Head(uiQueue).text
    /\ uiQueue' = Tail(uiQueue)
    /\ UNCHANGED <<worker, ui, closed, check_thread_timer,
                   last_speed_test_label, tick, owed,
                   stopTransitions>>
    /\ UNCHANGED stopRequestedAt
    /\ UNCHANGED reqInFlight
    /\ UNCHANGED tickSpent
    /\ UNCHANGED tickSlept
    /\ producedSnapshots' = IF producedSnapshots = <<>> THEN <<>>
                                ELSE Tail(producedSnapshots)
    /\ UNCHANGED producedResults
    /\ UNCHANGED format

\* update_speed_test_info, called for the speed_test_complete_signal at the
\* head of the queue
update_speed_test_info ==
    /\ ui = "idle"
    /\ uiQueue # <<>>
    /\ Head(uiQueue).sig = "speed"
    /\ last_speed_test_label' =
           SpeedTestText(Head(uiQueue).speed, Head(uiQueue).text)
    /\ uiQueue' = Tail(uiQueue)
    /\ UNCHANGED <<worker, ui, closed, check_thread_timer, info_label, tick, owed, stopTransitions>>
    /\ UNCHANGED stopRequestedAt
    /\ UNCHANGED reqInFlight
    /\ UNCHANGED tickSpent
    /\ UNCHANGED tickSlept
    /\ producedResults' = IF producedResults = <<>> THEN <<>>
                              ELSE Tail(producedResults)
    /\ UNCHANGED producedSnapshots
    /\ UNCHANGED format

\* the quit event reaches the head of the queue: app.exec() returns and
\* sys.exit ends the process
AppQuit ==
    /\ ui = "idle"
    /\ uiQueue # <<>>
    /\ Head(uiQueue).sig = "quit"
    /\ ui' = "quit"
    /\ uiQueue' = Tail(uiQueue)
    /\ UNCHANGED <<worker, closed, check_thread_timer, info_label,
                   last_speed_test_label, tick, owed,
                   stopTransitions>>
    /\ UNCHANGED stopRequestedAt
    /\ UNCHANGED reqInFlight
    /\ UNCHANGED tickSpent
    /\ UNCHANGED tickSlept
    /\ UNCHANGED produced
    /\ UNCHANGED format

Deliver == update_info_label \/ update_speed_test_info \/ AppQuit

Next ==
    \/ RunLoopCheck
    \/ RunGetSystemInfo
    \/ RunEmitUpdate
    \/ RunCheckRequested
    \/ RunGetSpeedTest
    \/ RunEmitSpeedTest
    \/ RunClearRequest
    \/ RunExcept
    \/ RunSleep
    \/ WorkerDies
    \/ request_speed_test
    \/ refresh_info_call
    \/ refresh_info_return
    \/ closeEvent_call
    \/ closeEvent_return
    \/ check_thread
    \/ update_info_label
    \/ update_speed_test_info
    \/ AppQuit

Spec == Init /\ [][Next]_vars

\* The worker thread is scheduled, a blocked call on the UI thread returns
\* when it can, and the event loop keeps taking events from its queue.
FairSpec ==
    /\ Spec
    /\ WF_vars(Worker)
    /\ WF_vars(refresh_info_return)
    /\ WF_vars(closeEvent_return)
    /\ SF_vars(Deliver)

\* FairSpec, and the one-second check timer fires whenever the UI thread is
\* back in its event loop
TimerFairSpec ==
    /\ FairSpec
    /\ SF_vars(check_thread)

TypeOK ==
    /\ pc \in {"top", "collect", "emit", "check", "speedtest", "complete",
               "clear", "except", "sleep", "exited", "dead"}
    /\ speed_test_requested \in BOOLEAN
    /\ interruptionRequested \in BOOLEAN
    /\ speed_info \in Speeds \cup {0}
    /\ Len(uiQueue) <= MaxQueue + 1
    /\ ui \in {"idle", "refreshing", "closing", "quit"}
    /\ closed \in BOOLEAN
    /\ check_thread_timer \in BOOLEAN
    /\ tickCollect \in {"none", "ok", "err"}
    /\ tickObserved \in {"unread", "set", "clear"}
    /\ tickTest \in {"none", "ok", "err"}
    /\ tickSnapshots \in Nat
    /\ tickResults \in Nat
    /\ prevTickRaised \in BOOLEAN

(* ------------------------------ claims -------------------------------- *)
\* C1: a tick that found the request flag set ends (reaches its sleep) with
\* the flag false, whether the speed test succeeded or raised.
C1_FlagClearAtTickEnd ==
    [][(tickObserved = "set" /\ pc # "sleep" /\ pc' = "sleep")
          => ~speed_test_requested']_vars

\* the request flag and the ledger of requests agree: a request that raised
\* the flag is owed one result until the tick that serves it has emitted it
C2_Ledger ==
    /\ owed \in {0, 1}
    /\ (owed = 1) <=> (speed_test_requested /\ pc # "clear")

\* ticks keep reaching the flag check and no speed test raises
C2_Assumption ==
    /\ []<>(pc = "check")
    /\ [](tickTest # "err")

\* C2: every request_speed_test() call that turns the flag from false to
\* true is answered by exactly one speed_test_complete emission: never more
\* than one, and, while speed tests succeed and the poller keeps running,
\* eventually one.
C2_ExactlyOneResultPerRequest ==
    /\ []C2_Ledger
    /\ C2_Assumption => ((owed = 1) ~> (owed = 0))

\* a request has been answered: the result is emitted, the flag not yet reset
C2_Witness == pc = "clear" /\ owed = 0 /\ tickResults = 1

\* C3: once closeEvent has returned, neither update_info_label nor
\* update_speed_test_info runs again.
C3_NoHandlerAfterShutdown ==
    [][closed => ~(update_info_label \/ update_speed_test_info)]_vars

\* C4: every tick emits exactly one snapshot, whatever happens in the tick.
C4_OneSnapshotPerTick == pc = "sleep" => tickSnapshots = 1

\* C5: a tick emits at most one speed-test result, and emits one only if it
\* found the request flag set and its speed test returned without error; a
\* tick without a pending request or with a failed test emits none.
C5_ResultOnlyForServedRequest ==
    /\ tickResults <= 1
    /\ tickResults = 1 => (tickObserved = "set" /\ tickTest = "ok")
    /\ (pc = "sleep" /\ (tickObserved # "set" \/ tickTest # "ok"))
          => tickResults = 0

\* a tick has ended after emitting its one result
C5_Witness == pc = "sleep" /\ tickResults = 1 /\ tickObserved = "set"

\* C6: run() returns only from the loop condition with the stop request
\* observed; after an exception of get_system_info or get_speed_test the
\* handler falls through to the sleep and the loop condition is evaluated
\* again, starting the next tick unless stop was requested.
C6_LoopEndsOnlyOnStop ==
    [][/\ (pc # "exited" /\ pc' = "exited")
             => (pc = "top" /\ interruptionRequested)
       /\ (pc \in {"collect", "speedtest"} /\ pc' \notin {pc, "dead"}
             /\ (tickCollect' = "err" \/ tickTest' = "err"))
             => pc' = "except"
       /\ (pc = "except" /\ pc' \notin {pc, "dead"}) => pc' = "sleep"
       /\ (pc = "sleep" /\ pc' # pc) => pc' = "top"
       /\ (pc = "top" /\ pc' # pc /\ ~interruptionRequested)
             => pc' = "collect"]_vars

\* a tick has started although the tick before it caught an exception
C6_Witness == pc = "collect" /\ prevTickRaised

\* C7: the UI thread is never inside the CPU sampling interval and never
\* waits for a worker that is still running.
C7_UiNeverBlocked ==
    /\ ui # "refreshing"
    /\ ~(ui = "closing" /\ IsRunning)

\* C8: when refresh_info has collected the snapshot of reading r, info_label
\* shows that snapshot, and the poller's flags and position are as before.
C8_RefreshShowsSnapshot ==
    [][\A r \in Readings :
          refresh_info_returns(r)
              => /\ info_label' = get_system_info(r)
                 /\ UNCHANGED <<pc, speed_test_requested,
                                interruptionRequested>>]_vars

\* C9: check_thread takes its stop transition at most once, only when the
\* worker is not running, and the transition stops the timer and shows the
\* fixed text; no check_thread that runs afterwards changes anything.
C9_StopTransitionOnce ==
    /\ [](stopTransitions <= 1)
    /\ [][/\ stopTransitions' # stopTransitions
                => /\ ~IsRunning
                   /\ ~check_thread_timer'
                   /\ info_label' = StoppedText
          /\ (stopTransitions >= 1 /\ check_thread) => UNCHANGED vars]_vars

\* the stop transition has been taken
C9_Witness ==
    stopTransitions = 1 /\ ~check_thread_timer /\ info_label = StoppedText

\* the shell is Stopped: check_thread has shown the terminal text, or
\* closeEvent has returned
ShellStopped == stopTransitions >= 1 \/ closed

\* C10: once the shell is Stopped it stays Stopped and neither label changes.
C10_StoppedIsTerminal ==
    [][ShellStopped
          => /\ ShellStopped'
             /\ info_label' = info_label
             /\ last_speed_test_label' = last_speed_test_label]_vars

\* C11: a stop request does not preempt the tick in progress: with the stop
\* requested the worker leaves run() from no position but the loop condition,
\* a speed test in flight still returns its result and the result is still
\* emitted; at the loop condition the worker then leaves; and, with the worker
\* scheduled, the UI thread blocked in closeEvent's wait eventually returns.
C11_StopCooperative ==
    /\ [][interruptionRequested =>
            /\ (pc \notin {"top", "exited"}) => pc' # "exited"
            /\ (pc = "speedtest" /\ tickTest' = "ok") => pc' = "complete"
            /\ (pc = "complete" /\ pc' # pc)
                  => (tickResults' = tickResults + 1 /\ pc' = "clear")
            /\ (pc = "top" /\ pc' # pc) => pc' = "exited"]_vars
    /\ (ui = "closing") ~> closed

\* closeEvent has returned after a stop requested while a speed test was in
\* flight, and the tick still emitted its result
C11_Witness ==
    closed /\ pc = "exited" /\ stopRequestedAt = "speedtest" /\ tickResults = 1

\* C12 as stated: a worker that dies while the shell is Running is
\* eventually detected: check_thread takes its stop transition and shows the
\* terminal text.
C12_DeathAlwaysDetected ==
    (pc = "dead" /\ ~ShellStopped /\ ui # "closing") ~> (stopTransitions >= 1)

\* C12 as amended: a worker that dies is eventually detected by check_thread,
\* which shows the terminal text and stops its timer, unless the window is
\* closed before the check has run.
C12_DeathDetectedUnlessClosed ==
    /\ (pc = "dead") ~> (stopTransitions >= 1 \/ closed)
    /\ [][stopTransitions' # stopTransitions
            => (info_label' = StoppedText /\ ~check_thread_timer')]_vars

\* the worker died while the window was open and check_thread has shown the
\* terminal text
C12_Witness ==
    pc = "dead" /\ ~closed /\ ui = "idle" /\ stopTransitions = 1
        /\ info_label = StoppedText

\* C16: a tick that finds the request flag set has cleared it when the speed
\* test starts to run, and a request made while the test is in flight is not
\* lost: after a test that returned, the tick ends with the flag set.
C16_RequestDuringTestKept ==
    [][/\ (pc = "check" /\ pc' = "speedtest") => ~speed_test_requested'
       /\ (reqInFlight /\ tickTest = "ok" /\ pc # "sleep" /\ pc' = "sleep")
             => speed_test_requested']_vars

Max0(n) == IF n < 0 THEN 0 ELSE n

\* C17: the sleep that ends a tick lasts max(0, 1000 ms - time the tick has
\* already spent), so a tick whose work took 1000 ms or more does not sleep.
C17_SleepIsRemainder ==
    [][(pc = "sleep" /\ pc' = "top")
          => tickSlept' = Max0(SleepMs - tickSpent)]_vars

\* the event at the head of the UI queue is taken off and it is a signal sig
Handled(sig) ==
    /\ uiQueue # <<>>
    /\ Head(uiQueue).sig = sig
    /\ uiQueue' = Tail(uiQueue)

\* C18: handling a snapshot sets info_label and leaves last_speed_test_label
\* alone; handling a speed-test result sets last_speed_test_label to
\* "Last Speed Test (<timestamp>): <speed> Mbps" and leaves info_label alone;
\* nothing else changes last_speed_test_label, so it always shows the result
\* delivered last.
C18_LabelsFramed ==
    [][/\ Handled("update")
             => /\ info_label' = Head(uiQueue).text
                /\ last_speed_test_label' = last_speed_test_label
       /\ Handled("speed")
             => /\ last_speed_test_label' =
                       "Last Speed Test (" \o Head(uiQueue).text \o "): "
                           \o ToString(Head(uiQueue).speed) \o ".00 Mbps"
                /\ info_label' = info_label
       /\ last_speed_test_label' # last_speed_test_label
             => Handled("speed")]_vars

\* a result was delivered in an earlier tick and this tick's snapshot has
\* been delivered after it
C18_Witness ==
    /\ last_speed_test_label # ""
    /\ pc \in {"check", "sleep"}
    /\ tickSnapshots = 1
    /\ tickResults = 0
    /\ uiQueue = <<>>
    /\ info_label \notin {"", StoppedText}


\* C13: the shell handles snapshots in the order the poller emitted them,
\* each one once, and speed-test results in the order the tests completed:
\* the snapshots (results) waiting in the event queue are always the emitted
\* and not yet handled ones in emission order, and every handled snapshot
\* (result) is the oldest of them and is the one the label shows.
IsSnapshot(m) == m.sig = "update"

IsResult(m) == m.sig = "speed"

QueuedSnapshots ==
    [i \in 1..Len(SelectSeq(uiQueue, IsSnapshot)) |->
        SelectSeq(uiQueue, IsSnapshot)[i].text]

QueuedResults ==
    [i \in 1..Len(SelectSeq(uiQueue, IsResult)) |->
        <<SelectSeq(uiQueue, IsResult)[i].speed,
          SelectSeq(uiQueue, IsResult)[i].text>>]

C13_ObservedInProductionOrder ==
    /\ [](QueuedSnapshots = producedSnapshots /\ QueuedResults = producedResults)
    /\ [][/\ Handled("update") =>
                /\ producedSnapshots # <<>>
                /\ info_label' = Head(producedSnapshots)
                /\ producedSnapshots' = Tail(producedSnapshots)
          /\ Handled("speed") =>
                /\ producedResults # <<>>
                /\ last_speed_test_label' =
                       SpeedTestText(Head(producedResults)[1],
                                     Head(producedResults)[2])
                /\ producedResults' = Tail(producedResults)]_vars

C13_Witness ==
    /\ Len(producedSnapshots) = 2
    /\ producedSnapshots[1] # producedSnapshots[2]
    /\ Len(producedResults) = 1
    /\ info_label \in {get_system_info(r) : r \in Readings}
    /\ last_speed_test_label # ""


(* --------------------- get_size and get_uptime ------------------------ *)
\* sizes = ['B', 'KB', 'MB', 'GB', 'TB']
sizes == <<"B", "KB", "MB", "GB", "TB">>

\* A byte count is written in base 1024, lowest digit first, one digit per
\* unit and one above the last unit; counts stay below 2^53, where the
\* float division by 1024 is exact.
Digit == {0, 1, 128, 1023}

ByteCounts ==
    {b \in [1..Len(sizes) + 1 -> Digit] : b[Len(sizes) + 1] \in {0, 1}}

\* ages of the process in seconds; divmod floors, so the fraction of a
\* second never reaches the result
Ages == {0, 59, 60, 3599, 3600, 86399, 86400, 90061}

\* bytes < 1024 after n executions of bytes /= 1024
Below1024(ds, n) == \A i \in (n + 2)..Len(ds) : ds[i] = 0

\* the value of the digits ds, lowest first
RECURSIVE DigitsValue(_)
DigitsValue(ds) ==
    IF ds = <<>> THEN 0 ELSE Head(ds) + 1024 * DigitsValue(Tail(ds))

\* 100 times the digits ds, carry c added: the digits of the product,
\* lowest first, the last one unbounded
RECURSIVE Times100(_, _)
Times100(ds, c) ==
    IF ds = <<>>
    THEN <<c>>
    ELSE <<(100 * Head(ds) + c) % 1024>>
            \o Times100(Tail(ds), (100 * Head(ds) + c) \div 1024)

\* f"{bytes:.2f}" after n divisions by 1024: the number printed, in
\* hundredths.  The exact value is rounded to the nearest hundredth, a tie
\* to the even one.
Hundredths(ds, n) ==
    LET p == Times100(SubSeq(ds, 1, n), 0)
        down == 100 * DigitsValue(SubSeq(ds, n + 1, Len(ds))) + p[n + 1]
        up == IF n = 0 THEN FALSE
              ELSE \/ p[n] > 512
                   \/ /\ p[n] = 512
                      /\ \/ \E i \in 1..(n - 1) : p[i] # 0
                         \/ down % 2 = 1
    IN  IF up THEN down + 1 ELSE down

FormatHundredths(h) ==
    ToString(h \div 100) \o "."
        \o (IF h % 100 < 10 THEN "0" ELSE "") \o ToString(h % 100)

\* the number of divisions by 1024 made before get_size returns, having
\* made n: the loop returns at the first unit where bytes < 1024 and is
\* left after the last unit
RECURSIVE Divisions(_, _)
Divisions(ds, n) ==
    IF n = Len(sizes) \/ Below1024(ds, n) THEN n ELSE Divisions(ds, n + 1)

\* the unit get_size prints after n divisions; past the loop it is "TB"
UnitPrinted(n) == IF n < Len(sizes) THEN sizes[n + 1] ELSE "TB"

get_size(ds) ==
    FormatHundredths(Hundredths(ds, Divisions(ds, 0)))
        \o " " \o UnitPrinted(Divisions(ds, 0))

\* str() of a float that holds a whole number, as an f-string prints it
FloatStr(n) == ToString(n) \o ".0"

\* get_uptime: three divmod calls on floats, the results printed as floats
get_uptime(s) ==
    LET minutes0 == s \div 60
        hours0 == minutes0 \div 60
        minutes == minutes0 % 60
        days == hours0 \div 24
        hours == hours0 % 24
    IN  FloatStr(days) \o " days, " \o FloatStr(hours) \o " hours, "
            \o FloatStr(minutes) \o " minutes"

\* the two functions are called on every byte count and every age drawn
FormatInit ==
    /\ Constructed
    /\ bytes \in ByteCounts
    /\ size_text = ""
    /\ size_value = 0
    /\ size_unit = ""
    /\ uptime_seconds \in Ages
    /\ uptime_text = ""

get_size_call ==
    /\ size_text = ""
    /\ size_text' = get_size(bytes)
    /\ size_value' = Hundredths(bytes, Divisions(bytes, 0))
    /\ size_unit' = UnitPrinted(Divisions(bytes, 0))
    /\ UNCHANGED <<bytes, uptime_seconds, uptime_text, system>>

get_uptime_call ==
    /\ uptime_text = ""
    /\ uptime_text' = get_uptime(uptime_seconds)
    /\ UNCHANGED <<bytes, size_text, size_value, size_unit, uptime_seconds,
                   system>>

FormatNext == get_size_call \/ get_uptime_call

FormatSpec == FormatInit /\ [][FormatNext]_vars

\* C14: for every byte count, get_size returns a string whose unit is one
\* of B, KB, MB, GB, TB and whose number, as printed with two decimals, is
\* below 1024 unless the unit is TB.
C14_PrintedBelow1024 ==
    size_text # "" =>
        /\ size_text = FormatHundredths(size_value) \o " " \o size_unit
        /\ \E k \in 1..Len(sizes) : size_unit = sizes[k]
        /\ size_unit # "TB" => size_value < 1024 * 100

\* C15: for every age s, get_uptime returns "<d> days, <h> hours, <m>
\* minutes" with d, h, m whole numbers printed without a fractional part,
\* 0 <= h < 24, 0 <= m < 60 and d*1440 + h*60 + m = floor(s / 60); for
\* s = 90061 the string is "1 days, 1 hours, 1 minutes".
C15_UptimeText ==
    uptime_text # "" =>
        /\ \E d \in 0..(uptime_seconds \div 86400), h \in 0..23, m \in 0..59 :
              /\ d * 1440 + h * 60 + m = uptime_seconds \div 60
              /\ uptime_text = ToString(d) \o " days, " \o ToString(h)
                                  \o " hours, " \o ToString(m) \o " minutes"
        /\ uptime_seconds = 90061 =>
              uptime_text = "1 days, 1 hours, 1 minutes"

\* C19: for every byte count B, the number get_size prints is B / 1024^k,
\* to two decimals, where k (0 to 4) is the position of the printed unit
\* in the ladder B, KB, MB, GB, TB; for B >= 1024^5 the number printed with
\* TB is B / 1024^4.
UnitPosition(u) == CHOOSE k \in 0..(Len(sizes) - 1) : sizes[k + 1] = u

C19_PrintedIsScaled ==
    size_text # "" =>
        /\ size_text = FormatHundredths(size_value) \o " " \o size_unit
        /\ size_value = Hundredths(bytes, UnitPosition(size_unit))
        /\ bytes[Len(sizes) + 1] # 0 =>
              (size_unit = "TB" /\ size_value = Hundredths(bytes, Len(sizes) - 1))

=============================================================================
